---------------------------- MODULE Spec2Model ----------------------------
(***************************************************************************)
(* Fake-news detector: the training script (train_model.py) and the        *)
(* Streamlit inference app (app.py).                                       *)
(*                                                                         *)
(* Text is a sequence of one-character strings.  The estimators of         *)
(* scikit-learn are modelled by what the calls of the two scripts do with  *)
(* them: TfidfVectorizer keeps a vocabulary and one IDF weight per term    *)
(* (in tenths, rounded), LogisticRegression keeps one coefficient per term *)
(* and an intercept, predict thresholds the decision function at 0 and     *)
(* predict_proba is the logistic function of the score, kept symbolic.     *)
(* What the seeded random generator and the solver return cannot be        *)
(* computed here: they are fixed per behaviour (reproducible) and drawn    *)
(* from small sets in the initial state (variable env).                    *)
(***************************************************************************)
EXTENDS Integers, Sequences, FiniteSets, TLC

VARIABLES
    tx,       \* a single call of the two normalizers on one input text
    env,      \* outcome of the seeded shuffles and of the solver
    runs,     \* number of training runs started so far
    tr,       \* the running train_model.py process: position and globals
    files,    \* model/model.pkl, model/vectorizer.pkl, model/evaluation.txt
    cache,    \* st.cache_resource entry of load_model
    live,     \* browser sessions connected to the app
    sess,     \* per live session: position in main(), locals, st.session_state
    served    \* every (text, result) pair predict_news has returned

vars == <<tx, env, runs, tr, files, cache, live, sess, served>>

---------------------------------------------------------------------------
(* Bounds of the model.                                                    *)

\* longest input text handed to the normalizers in SpecText
MaxLen == 6
\* training runs started in one behaviour
MaxRuns == 2

---------------------------------------------------------------------------
(* Characters and the character classes of Python's re and str.            *)

LowerLetters == {"a", "b", "c", "d", "e", "f", "h", "n", "p", "t", "x", "y"}
UpperLetters == {"A", "B", "H", "T"}
Digits == {"0", "1", "2", "5", "9"}
Spaces == {" ", "\n", "\t"}

IsSpace(c) == c \in Spaces
IsDigit(c) == c \in Digits
\* \w : letters, digits and the underscore
IsWord(c) == c \in LowerLetters \cup UpperLetters \cup Digits \cup {"_"}

LowerChar(c) ==
    CASE c = "A" -> "a"
      [] c = "B" -> "b"
      [] c = "H" -> "h"
      [] c = "T" -> "t"
      [] OTHER -> c

\* str.lower()
lower(s) == [i \in 1..Len(s) |-> LowerChar(s[i])]

RECURSIVE SkipNonSpace(_)
\* the rest of s after its leading run of non-whitespace characters (\S+ is greedy)
SkipNonSpace(s) ==
    IF s = <<>> \/ IsSpace(Head(s)) THEN s ELSE SkipNonSpace(Tail(s))

\* r"http\S+" matches at the start of s
MatchesUrl(s) ==
    /\ Len(s) >= 5
    /\ SubSeq(s, 1, 4) = <<"h", "t", "t", "p">>
    /\ ~IsSpace(s[5])

RECURSIVE sub_url(_)
\* re.sub(r"http\S+", "", s): leftmost matches, left to right, not overlapping
sub_url(s) ==
    IF s = <<>> THEN <<>>
    ELSE IF MatchesUrl(s) THEN sub_url(SkipNonSpace(SubSeq(s, 5, Len(s))))
    ELSE <<Head(s)>> \o sub_url(Tail(s))

\* re.sub(r"\d+", "", s)
sub_digits(s) == SelectSeq(s, LAMBDA c : ~IsDigit(c))

\* re.sub(r"[^\w\s]", "", s)
sub_punct(s) == SelectSeq(s, LAMBDA c : IsWord(c) \/ IsSpace(c))

RECURSIVE lstrip(_)
lstrip(s) == IF s # <<>> /\ IsSpace(Head(s)) THEN lstrip(Tail(s)) ELSE s

RECURSIVE rstrip(_)
rstrip(s) ==
    IF s # <<>> /\ IsSpace(s[Len(s)]) THEN rstrip(SubSeq(s, 1, Len(s) - 1)) ELSE s

\* str.strip()
strip(s) == rstrip(lstrip(s))

\* app.py clean_text
clean_text(text) ==
    LET t1 == lower(text)
        t2 == sub_url(t1)
        t3 == sub_digits(t2)
        t4 == sub_punct(t3)
    IN  strip(t4)

\* train_clean_text with a slip: the digits stay in
train_clean_text_keep_digits(text) ==
    strip(sub_punct(sub_url(lower(text))))

\* train_model.py clean_text
train_clean_text(text) ==
    LET t1 == lower(text)
        t2 == sub_url(t1)
        t3 == sub_digits(t2)
        t4 == sub_punct(t3)
    IN  strip(t4)

\* s holds "http" followed by a non-whitespace character somewhere
HasUrl(s) == \E i \in 1..Len(s) : MatchesUrl(SubSeq(s, i, Len(s)))


---------------------------------------------------------------------------
(* Small helpers.                                                          *)

RECURSIVE SumSeq(_)
SumSeq(s) == IF s = <<>> THEN 0 ELSE Head(s) + SumSeq(Tail(s))

RECURSIVE SetToSeq(_)
\* the elements of a finite set in some fixed order
SetToSeq(S) ==
    IF S = {} THEN <<>>
    ELSE LET x == CHOOSE y \in S : TRUE IN <<x>> \o SetToSeq(S \ {x})

Range(s) == {s[i] : i \in 1..Len(s)}
Reverse(s) == [i \in 1..Len(s) |-> s[Len(s) + 1 - i]]
Count(x, s) == Cardinality({i \in 1..Len(s) : s[i] = x})

\* an unset Python name, a file that does not exist, a file cut short by a crash
None == [kind |-> "none"]
Absent == [kind |-> "absent"]
Truncated == [kind |-> "truncated"]
Pickle(run, obj) == [kind |-> "pickle", run |-> run, obj |-> obj]

---------------------------------------------------------------------------
(* The data files and the outcomes of the random generator and the solver. *)

\* data/Fake.csv
FakeCsv ==
    << [title |-> <<"a", "b">>,      text |-> <<"c", "d", "!">>],
       [title |-> <<"c", "d">>,      text |-> <<"e", "f", " ", "a", "n", " ", "1">>] >>

\* data/True.csv
TrueCsv ==
    << [title |-> <<"A", "b">>,      text |-> <<"h", "t", "t", "p", ":", "x">>],
       [title |-> <<"a", "b">>,      text |-> <<"a", "b", " ", "2">>] >>

\* the terms a vocabulary can hold with these files
Terms == { <<"a", "b">>, <<"c", "d">>, <<"e", "f">> }

\* sklearn's ENGLISH_STOP_WORDS, the part that occurs in the texts
StopWords == { <<"a", "n">>, <<"t", "h", "e">> }

\* what a seeded permutation of n items may be
PermKinds == {"id", "rev", "rot"}
Permute(s, kind) ==
    CASE kind = "id" -> s
      [] kind = "rev" -> Reverse(s)
      [] kind = "rot" -> IF s = <<>> THEN s ELSE Tail(s) \o <<Head(s)>>

\* what the solver may return for a coefficient or the intercept
CoefValues == {-1, 0, 1}

Envs ==
    [shuffle : PermKinds, split : PermKinds,
     coef : [Terms -> CoefValues], intercept : CoefValues]

---------------------------------------------------------------------------
(* TfidfVectorizer(max_features=5000, stop_words='english').               *)

MaxFeatures == 5000

RECURSIVE WordRuns(_, _)
\* the maximal runs of word characters of s; cur is the run being read
WordRuns(s, cur) ==
    IF s = <<>> THEN (IF cur = <<>> THEN <<>> ELSE <<cur>>)
    ELSE IF IsWord(Head(s)) THEN WordRuns(Tail(s), Append(cur, Head(s)))
    ELSE (IF cur = <<>> THEN <<>> ELSE <<cur>>) \o WordRuns(Tail(s), <<>>)

\* build_analyzer: lowercase, token_pattern r"(?u)\b\w\w+\b", stop words dropped
Analyze(doc) ==
    SelectSeq(WordRuns(lower(doc), <<>>),
              LAMBDA w : Len(w) >= 2 /\ w \notin StopWords)

\* smoothed idf ln((1 + n) / (1 + df)) + 1, in tenths, rounded
Idf10(n, df) ==
    CASE df = n -> 10
      [] n = 2 /\ df = 1 -> 14
      [] n = 3 /\ df = 1 -> 17
      [] n = 3 /\ df = 2 -> 13
      [] n = 4 /\ df = 1 -> 19
      [] n = 4 /\ df = 2 -> 15
      [] n = 4 /\ df = 3 -> 12
      [] OTHER -> 20

\* the max_features terms of highest term frequency (all of them when fewer)
LimitFeatures(V, tf) ==
    IF Cardinality(V) <= MaxFeatures THEN V
    ELSE CHOOSE W \in SUBSET V :
            /\ Cardinality(W) = MaxFeatures
            /\ \A a \in W, b \in V \ W : tf[a] >= tf[b]

\* vectorizer.fit on the series X_fit.  fit_rows records which rows the state
\* was learned from.
vec_fit(X_fit) ==
    LET toks == [i \in 1..Len(X_fit) |-> Analyze(X_fit[i].v)]
        all == UNION {Range(toks[i]) : i \in 1..Len(X_fit)}
        tf == [t \in all |-> SumSeq([i \in 1..Len(X_fit) |-> Count(t, toks[i])])]
        V == LimitFeatures(all, tf)
        dfreq == [t \in V |-> Cardinality({i \in 1..Len(X_fit) : t \in Range(toks[i])})]
    IN  [vocabulary |-> V,
         idf |-> [t \in V |-> Idf10(Len(X_fit), dfreq[t])],
         fit_rows |-> {X_fit[i].idx : i \in 1..Len(X_fit)}]

\* vec_transform with a slip: unseen terms are added to the vocabulary
vec_transform_growing(vz, doc) ==
    LET toks == Analyze(doc)
        V == vz.vocabulary \cup Range(toks)
        grown == [vocabulary |-> V,
                  idf |-> [t \in V |-> IF t \in vz.vocabulary THEN vz.idf[t] ELSE 10],
                  fit_rows |-> vz.fit_rows]
    IN  [vz |-> grown, x |-> [t \in V |-> Count(t, toks) * grown.idf[t]]]

\* vectorizer.transform([doc]): the feature vector x of doc, and the state vz
\* the vectorizer object is left in (the same: terms out of the vocabulary
\* are dropped)
vec_transform(vz, doc) ==
    LET toks == Analyze(doc)
    IN  [vz |-> vz,
         x |-> [t \in vz.vocabulary |-> Count(t, toks) * vz.idf[t]]]

---------------------------------------------------------------------------
(* LogisticRegression().                                                   *)

\* model.fit(X_vec, y): the solver's coefficients over the columns of X_vec
clf_fit(X_vec, y, cols, e) ==
    [coef |-> [t \in cols |-> e.coef[t]],
     intercept |-> e.intercept,
     fit_rows |-> {X_vec[i].idx : i \in 1..Len(X_vec)}]

\* decision_function: dot(coef, x) + intercept
decision_function(m, x) ==
    SumSeq([i \in 1..Cardinality(DOMAIN x) |->
              LET t == SetToSeq(DOMAIN x)[i]
              IN  (IF t \in DOMAIN m.coef THEN m.coef[t] ELSE 0) * x[t]])
      + m.intercept

\* clf_predict with a slip: a score of exactly 0 goes to class 1
clf_predict_tie_real(m, x) == IF decision_function(m, x) >= 0 THEN 1 ELSE 0

\* model.predict: class 1 (real) when the score is positive, else class 0 (fake)
clf_predict(m, x) == IF decision_function(m, x) > 0 THEN 1 ELSE 0

\* model.predict_proba: <<p(fake), p(real)>> = <<sigmoid(-score), sigmoid(score)>>
clf_predict_proba(m, x) ==
    LET z == decision_function(m, x)
    IN  << [sigmoid |-> 0 - z], [sigmoid |-> z] >>


---------------------------------------------------------------------------
(* train_model.py: one process, one statement group per step.              *)

TestSizePct == 40

\* the order of the statements of the script
StageOrder ==
    << "load", "label", "concat", "shuffle", "normalize", "split",
       "vec_fit", "vec_transform", "clf_fit", "predict", "metrics",
       "dump_model", "dump_vectorizer", "write_eval" >>

\* the order with the split moved before the normalization
StageOrderSplitFirst ==
    << "load", "label", "concat", "shuffle", "split", "normalize",
       "vec_fit", "vec_transform", "clf_fit", "predict", "metrics",
       "dump_model", "dump_vectorizer", "write_eval" >>

\* StageAfter with a slip: the split runs before the normalization
StageAfterSplitFirst(stage) ==
    LET i == CHOOSE k \in 1..Len(StageOrderSplitFirst) : StageOrderSplitFirst[k] = stage
    IN  IF i = Len(StageOrderSplitFirst) THEN "done" ELSE StageOrderSplitFirst[i + 1]

\* the statement that runs after `stage`
StageAfter(stage) ==
    LET i == CHOOSE k \in 1..Len(StageOrder) : StageOrder[k] = stage
    IN  IF i = Len(StageOrder) THEN "done" ELSE StageOrder[i + 1]

\* no process: before the first run, and after a process is gone
TrNone == [pc |-> "idle", run |-> 0, before |-> None]

\* the globals of a process that starts
TrFresh(run, before) ==
    [pc |-> "load", run |-> run, log |-> <<>>, before |-> before,
     fake |-> <<>>, real |-> <<>>, df |-> <<>>, X |-> <<>>, y |-> <<>>,
     X_train |-> <<>>, X_test |-> <<>>, y_train |-> <<>>, y_test |-> <<>>,
     vectorizer |-> None, X_train_vec |-> <<>>, X_test_vec |-> <<>>,
     model |-> None, y_pred |-> <<>>, accuracy |-> None]

Running == tr.pc \in Range(StageOrder)

\* the step of `stage` is done: on to the next statement
Advance(t, stage) ==
    [t EXCEPT !.pc = StageAfter(stage), !.log = Append(t.log, stage)]

\* the process is gone, and its globals with it: after the last statement
\* ("done"), or on an exception nothing catches or a kill ("stopped")
Exit(t, how) == [TrNone EXCEPT !.pc = how, !.run = t.run, !.before = t.before]

\* python train_model.py
T_Start ==
    /\ tr.pc \in {"idle", "done", "stopped"}
    /\ runs < MaxRuns
    /\ runs' = runs + 1
    /\ tr' = TrFresh(runs + 1, files)
    /\ UNCHANGED <<tx, env, files, cache, live, sess, served>>

\* fake = pd.read_csv(...); real = pd.read_csv(...)
T_Load ==
    /\ tr.pc = "load"
    /\ tr' = Advance([tr EXCEPT !.fake = FakeCsv, !.real = TrueCsv], "load")
    /\ UNCHANGED <<tx, env, runs, files, cache, live, sess, served>>

AddLabel(rows, l) ==
    [i \in 1..Len(rows) |-> [title |-> rows[i].title, text |-> rows[i].text, label |-> l]]

\* fake['label'] = 0; real['label'] = 1
T_Label ==
    /\ tr.pc = "label"
    /\ tr' = Advance([tr EXCEPT !.fake = AddLabel(tr.fake, 0),
                                !.real = AddLabel(tr.real, 1)], "label")
    /\ UNCHANGED <<tx, env, runs, files, cache, live, sess, served>>

\* df = pd.concat([fake, real], axis=0)
T_Concat ==
    /\ tr.pc = "concat"
    /\ tr' = Advance([tr EXCEPT !.df = tr.fake \o tr.real], "concat")
    /\ UNCHANGED <<tx, env, runs, files, cache, live, sess, served>>

\* df = df.sample(frac=1, random_state=42).reset_index(drop=True)
T_Shuffle ==
    /\ tr.pc = "shuffle"
    /\ tr' = Advance([tr EXCEPT !.df = Permute(tr.df, env.shuffle)], "shuffle")
    /\ UNCHANGED <<tx, env, runs, files, cache, live, sess, served>>

\* the series df['content'], indexed by row
Contents(df) ==
    [i \in 1..Len(df) |->
        [idx |-> i, v |-> train_clean_text(df[i].title \o <<" ">> \o df[i].text)]]

\* df['content'] = (df['title'] + " " + df['text']).apply(clean_text)
T_Normalize ==
    /\ tr.pc = "normalize"
    /\ tr' = Advance([tr EXCEPT !.X = Contents(tr.df)], "normalize")
    /\ UNCHANGED <<tx, env, runs, files, cache, live, sess, served>>

\* ceil(test_size * n) test rows, floor((1 - test_size) * n) train rows
NTest(n) == (n * TestSizePct + 99) \div 100
NTrain(n) == (n * (100 - TestSizePct)) \div 100

\* train_test_split(X, y, test_size=0.4, random_state=42): the seeded permutation
\* of the rows, its first n_test rows the test set, the next n_train the training set
train_test_split(X, y, e) ==
    LET n == Len(X)
        perm == Permute([i \in 1..n |-> i], e.split)
        te == SubSeq(perm, 1, NTest(n))
        trn == SubSeq(perm, NTest(n) + 1, NTest(n) + NTrain(n))
    IN  [X_train |-> [i \in 1..Len(trn) |-> X[trn[i]]],
         X_test |-> [i \in 1..Len(te) |-> X[te[i]]],
         y_train |-> [i \in 1..Len(trn) |-> y[trn[i]]],
         y_test |-> [i \in 1..Len(te) |-> y[te[i]]]]

\* X = df['content']; y = df['label']; X_train, X_test, y_train, y_test = ...
T_Split ==
    /\ tr.pc = "split"
    /\ LET y == [i \in 1..Len(tr.df) |-> [idx |-> i, v |-> tr.df[i].label]]
           sp == train_test_split(tr.X, y, env)
       IN  tr' = Advance([tr EXCEPT !.y = y,
                                    !.X_train = sp.X_train, !.X_test = sp.X_test,
                                    !.y_train = sp.y_train, !.y_test = sp.y_test],
                         "split")
    /\ UNCHANGED <<tx, env, runs, files, cache, live, sess, served>>

\* VecFitInput with a slip: the vectorizer is fitted on every row
VecFitInputAll(t) == t.X

\* the argument of vectorizer.fit_transform
VecFitInput(t) == t.X_train

\* the rows of the series X, transformed
TransformAll(vz, X) ==
    [i \in 1..Len(X) |-> [idx |-> X[i].idx, v |-> vec_transform(vz, X[i].v).x]]

\* vectorizer = TfidfVectorizer(...); X_train_vec = vectorizer.fit_transform(X_train)
\* (ValueError on an empty vocabulary)
T_VecFit ==
    /\ tr.pc = "vec_fit"
    /\ LET vz == vec_fit(VecFitInput(tr))
       IN  tr' = IF vz.vocabulary = {}
                 THEN Exit(tr, "stopped")
                 ELSE Advance([tr EXCEPT !.vectorizer = vz,
                                         !.X_train_vec = TransformAll(vz, tr.X_train)],
                              "vec_fit")
    /\ UNCHANGED <<tx, env, runs, files, cache, live, sess, served>>

\* X_test_vec = vectorizer.transform(X_test)
T_VecTransform ==
    /\ tr.pc = "vec_transform"
    /\ tr' = Advance([tr EXCEPT !.X_test_vec = TransformAll(tr.vectorizer, tr.X_test)],
                     "vec_transform")
    /\ UNCHANGED <<tx, env, runs, files, cache, live, sess, served>>

\* model = LogisticRegression(); model.fit(X_train_vec, y_train)
\* (ValueError when y_train holds a single class)
T_ClfFit ==
    /\ tr.pc = "clf_fit"
    /\ tr' = IF Cardinality({tr.y_train[i].v : i \in 1..Len(tr.y_train)}) < 2
             THEN Exit(tr, "stopped")
             ELSE Advance([tr EXCEPT !.model =
                              clf_fit(tr.X_train_vec, tr.y_train,
                                      tr.vectorizer.vocabulary, env)],
                          "clf_fit")
    /\ UNCHANGED <<tx, env, runs, files, cache, live, sess, served>>

\* y_pred = model.predict(X_test_vec)
T_Predict ==
    /\ tr.pc = "predict"
    /\ tr' = Advance([tr EXCEPT !.y_pred =
                        [i \in 1..Len(tr.X_test_vec) |->
                            clf_predict(tr.model, tr.X_test_vec[i].v)]],
                     "predict")
    /\ UNCHANGED <<tx, env, runs, files, cache, live, sess, served>>

\* accuracy_score(y_test, y_pred): hits out of the number of test rows
accuracy_score(y_test, y_pred) ==
    [hits |-> Cardinality({i \in 1..Len(y_test) : y_test[i].v = y_pred[i]}),
     of |-> Len(y_test)]

\* print("Accuracy:", ...); print(classification_report(...))
T_Metrics ==
    /\ tr.pc = "metrics"
    /\ tr' = Advance([tr EXCEPT !.accuracy = accuracy_score(tr.y_test, tr.y_pred)],
                     "metrics")
    /\ UNCHANGED <<tx, env, runs, files, cache, live, sess, served>>

\* os.makedirs("model", exist_ok=True); joblib.dump(model, "model/model.pkl")
T_DumpModel ==
    /\ tr.pc = "dump_model"
    /\ files' = [files EXCEPT !.model = Pickle(tr.run, tr.model)]
    /\ tr' = Advance(tr, "dump_model")
    /\ UNCHANGED <<tx, env, runs, cache, live, sess, served>>

\* joblib.dump(vectorizer, "model/vectorizer.pkl")
T_DumpVectorizer ==
    /\ tr.pc = "dump_vectorizer"
    /\ files' = [files EXCEPT !.vectorizer = Pickle(tr.run, tr.vectorizer)]
    /\ tr' = Advance(tr, "dump_vectorizer")
    /\ UNCHANGED <<tx, env, runs, cache, live, sess, served>>

\* with open("model/evaluation.txt", "w") as f: f.write(...)
T_WriteEval ==
    /\ tr.pc = "write_eval"
    /\ files' = [files EXCEPT !.evaluation =
                    Pickle(tr.run, accuracy_score(tr.y_test, tr.y_pred))]
    /\ tr' = Exit(tr, "done")
    /\ UNCHANGED <<tx, env, runs, cache, live, sess, served>>

\* the file the statement at `stage` writes, if it writes one
Target(stage) ==
    CASE stage = "dump_model" -> "model"
      [] stage = "dump_vectorizer" -> "vectorizer"
      [] stage = "write_eval" -> "evaluation"
      [] OTHER -> "none"

\* The process is killed (or the machine stops): between two statements, or
\* inside a write, after the file was opened for writing and before it is
\* complete.
T_Crash ==
    /\ Running
    /\ \/ files' = files
       \/ /\ Target(tr.pc) # "none"
          /\ files' = [files EXCEPT ![Target(tr.pc)] = Truncated]
    /\ tr' = Exit(tr, "stopped")
    /\ UNCHANGED <<tx, env, runs, cache, live, sess, served>>

Train ==
    \/ T_Start \/ T_Load \/ T_Label \/ T_Concat \/ T_Shuffle \/ T_Normalize
    \/ T_Split \/ T_VecFit \/ T_VecTransform \/ T_ClfFit \/ T_Predict
    \/ T_Metrics \/ T_DumpModel \/ T_DumpVectorizer \/ T_WriteEval \/ T_Crash


---------------------------------------------------------------------------
(* app.py: the Streamlit process.  Every interaction of a session runs     *)
(* main() from the top in a thread of its own; load_model is cached for    *)
(* the process by st.cache_resource, which computes a missing entry under  *)
(* a lock.  The example buttons hand two fixed, non-blank texts to the     *)
(* same predict_news and are left out.                                     *)

Sessions == {"s1", "s2"}

\* what a user may paste or upload
ArticleTexts ==
    { <<>>,
      <<" ", "\n">>,
      <<"A", "b", " ", "c", "d", "!">>,
      <<"x", "y", " ", "9">> }

\* a rerun with no button pressed, or with "Analyze Article" pressed
Events == {"open", "analyze"}

CacheEmpty == [kind |-> "empty"]

SessNew ==
    [pc |-> "idle", event |-> "open", article_text |-> <<>>,
     saw_model |-> "unread", saw_vectorizer |-> "unread",
     cleaned_text |-> <<>>, text_vec |-> <<>>,
     prediction |-> None, probability |-> None, ui |-> "none",
     has_last |-> FALSE,
     last_prediction |-> None, last_probability |-> None, last_text |-> <<>>]

\* the run of main() is over: the locals of predict_news are gone; the page
\* (ui), the widgets (event, article_text) and st.session_state stay.
\* saw_model and saw_vectorizer record what load_model found in this run.
EndRun(ss, ui) ==
    [ss EXCEPT !.pc = "idle", !.cleaned_text = <<>>, !.text_vec = <<>>,
               !.prediction = None, !.probability = None, !.ui = ui]

\* a widget event reruns the script: main() starts
M_Run(s) ==
    /\ s \in live
    /\ sess[s].pc = "idle"
    /\ \E ev \in Events, txt \in ArticleTexts :
          /\ ev = "open" => txt = <<>>
          /\ sess' = [sess EXCEPT ![s].pc = "load_model", ![s].event = ev,
                                  ![s].article_text = txt, ![s].ui = "none",
                                  ![s].saw_model = "unread",
                                  ![s].saw_vectorizer = "unread"]
    /\ UNCHANGED <<tx, env, runs, tr, files, cache, live, served>>

\* load_model(): a cached entry is returned as it is; without one the body runs,
\* one caller at a time
L_Enter(s) ==
    /\ s \in live
    /\ sess[s].pc = "load_model"
    /\ \/ /\ cache.kind = "pair"
          /\ sess' = [sess EXCEPT ![s].pc = "handler"]
          /\ UNCHANGED cache
       \/ /\ cache.kind = "empty"
          /\ cache' = [kind |-> "loading", by |-> s, model |-> None]
          /\ sess' = [sess EXCEPT ![s].pc = "read_model"]
    /\ UNCHANGED <<tx, env, runs, tr, files, live, served>>

\* LoadOutcome with a slip: whatever is (or is not) at the path loads
LoadOutcomeLenient(f) == "ok"

\* joblib.load(path): the object, FileNotFoundError, or an unpickling error
LoadOutcome(f) ==
    CASE f.kind = "pickle" -> "ok"
      [] f.kind = "absent" -> "FileNotFoundError"
      [] OTHER -> "UnpicklingError"

\* FileNotFoundError is caught: st.error(...), st.stop().  Any other exception
\* leaves load_model and main(); Streamlit shows it.  Either way the run of the
\* script ends and nothing is cached.
LoadFailed(ss, outcome) ==
    EndRun(ss, IF outcome = "FileNotFoundError" THEN "load_error" ELSE "exception")

\* model = joblib.load("model/model.pkl")
L_ReadModel(s) ==
    /\ s \in live
    /\ sess[s].pc = "read_model"
    /\ LET out == LoadOutcome(files.model)
           ss == [sess[s] EXCEPT !.saw_model = files.model.kind]
       IN  IF out = "ok"
           THEN /\ cache' = [cache EXCEPT !.model = files.model]
                /\ sess' = [sess EXCEPT ![s] = [ss EXCEPT !.pc = "read_vectorizer"]]
           ELSE /\ cache' = CacheEmpty
                /\ sess' = [sess EXCEPT ![s] = LoadFailed(ss, out)]
    /\ UNCHANGED <<tx, env, runs, tr, files, live, served>>

\* vectorizer = joblib.load("model/vectorizer.pkl"); return model, vectorizer
L_ReadVectorizer(s) ==
    /\ s \in live
    /\ sess[s].pc = "read_vectorizer"
    /\ LET out == LoadOutcome(files.vectorizer)
           ss == [sess[s] EXCEPT !.saw_vectorizer = files.vectorizer.kind]
       IN  IF out = "ok"
           THEN /\ cache' = [kind |-> "pair", model |-> cache.model,
                             vectorizer |-> files.vectorizer]
                /\ sess' = [sess EXCEPT ![s] = [ss EXCEPT !.pc = "handler"]]
           ELSE /\ cache' = CacheEmpty
                /\ sess' = [sess EXCEPT ![s] = LoadFailed(ss, out)]
    /\ UNCHANGED <<tx, env, runs, tr, files, live, served>>

\* HasText with a slip: only the empty string counts as no text
HasTextAnyChar(article_text) == article_text # <<>>

\* if article_text.strip():
HasText(article_text) == strip(article_text) # <<>>

\* "Analyze Article": predict_news(article_text, model, vectorizer) when there
\* is text, else st.warning("Please enter some text to analyze!")
M_Handler(s) ==
    /\ s \in live
    /\ sess[s].pc = "handler"
    /\ sess' = [sess EXCEPT ![s] =
          IF sess[s].event = "analyze"
          THEN IF HasText(sess[s].article_text)
               THEN [sess[s] EXCEPT !.pc = "clean"]
               ELSE EndRun(sess[s], "warning")
          ELSE EndRun(sess[s], "none")]
    /\ UNCHANGED <<tx, env, runs, tr, files, cache, live, served>>

\* predict_news: cleaned_text = clean_text(text)
P_Clean(s) ==
    /\ s \in live
    /\ sess[s].pc = "clean"
    /\ sess' = [sess EXCEPT ![s].cleaned_text = clean_text(sess[s].article_text),
                            ![s].pc = "transform"]
    /\ UNCHANGED <<tx, env, runs, tr, files, cache, live, served>>

\* predict_news: text_vec = vectorizer.transform([cleaned_text]), a call on the
\* cached vectorizer object
P_Transform(s) ==
    /\ s \in live
    /\ sess[s].pc = "transform"
    /\ LET r == vec_transform(cache.vectorizer.obj, sess[s].cleaned_text)
       IN  /\ sess' = [sess EXCEPT ![s].text_vec = r.x, ![s].pc = "predict"]
           /\ cache' = [cache EXCEPT !.vectorizer.obj = r.vz]
    /\ UNCHANGED <<tx, env, runs, tr, files, live, served>>

\* predict_news: prediction = model.predict(text_vec)[0]
P_Predict(s) ==
    /\ s \in live
    /\ sess[s].pc = "predict"
    /\ sess' = [sess EXCEPT ![s].prediction = clf_predict(cache.model.obj, sess[s].text_vec),
                            ![s].pc = "proba"]
    /\ UNCHANGED <<tx, env, runs, tr, files, cache, live, served>>

\* predict_news: probability = model.predict_proba(text_vec)[0]
P_Proba(s) ==
    /\ s \in live
    /\ sess[s].pc = "proba"
    /\ sess' = [sess EXCEPT ![s].probability =
                              clf_predict_proba(cache.model.obj, sess[s].text_vec),
                            ![s].pc = "store"]
    /\ UNCHANGED <<tx, env, runs, tr, files, cache, live, served>>

\* return prediction, probability; st.session_state.last_prediction = ...,
\* last_probability = ..., last_text = article_text
M_Store(s) ==
    /\ s \in live
    /\ sess[s].pc = "store"
    /\ sess' = [sess EXCEPT ![s] =
                  [EndRun(sess[s], "result") EXCEPT
                      !.has_last = TRUE,
                      !.last_prediction = sess[s].prediction,
                      !.last_probability = sess[s].probability,
                      !.last_text = sess[s].article_text]]
    /\ served' = served \cup {[text |-> sess[s].article_text,
                               prediction |-> sess[s].prediction,
                               probability |-> sess[s].probability]}
    /\ UNCHANGED <<tx, env, runs, tr, files, cache, live>>

\* predict_news as one function of its arguments
predict_news(text, model, vectorizer) ==
    LET text_vec == vec_transform(vectorizer, clean_text(text)).x
    IN  [prediction |-> clf_predict(model, text_vec),
         probability |-> clf_predict_proba(model, text_vec)]

App ==
    \E s \in Sessions :
        \/ M_Run(s) \/ L_Enter(s) \/ L_ReadModel(s) \/ L_ReadVectorizer(s)
        \/ M_Handler(s) \/ P_Clean(s) \/ P_Transform(s) \/ P_Predict(s)
        \/ P_Proba(s) \/ M_Store(s)

---------------------------------------------------------------------------
(* The normalizers alone, on every text up to MaxLen characters.           *)

TextAlphabet == {"H", "t", "p", "1", ".", " "}
\* the texts of n characters
Texts(n) == [1..n -> TextAlphabet]

TxOff == [pc |-> "off", input |-> <<>>, app |-> <<>>, train |-> <<>>, again |-> <<>>]

\* clean_text of app.py and of train_model.py on one text, and clean_text of
\* app.py on its own result
X_Normalize ==
    /\ tx.pc = "in"
    /\ \E n \in 0..MaxLen : \E t \in Texts(n) :
         LET once == clean_text(t)
         IN  tx' = [pc |-> "out", input |-> t, app |-> once,
                    train |-> train_clean_text(t), again |-> clean_text(once)]
    /\ UNCHANGED <<env, runs, tr, files, cache, live, sess, served>>

---------------------------------------------------------------------------
(* The whole pipeline as one function of the outcomes e: what a complete   *)
(* run writes.                                                             *)

PipelineOf(e) ==
    LET df == Permute(AddLabel(FakeCsv, 0) \o AddLabel(TrueCsv, 1), e.shuffle)
        y == [i \in 1..Len(df) |-> [idx |-> i, v |-> df[i].label]]
        sp == train_test_split(Contents(df), y, e)
        vz == vec_fit(sp.X_train)
        m == clf_fit(TransformAll(vz, sp.X_train), sp.y_train, vz.vocabulary, e)
        Xt == TransformAll(vz, sp.X_test)
        y_pred == [i \in 1..Len(Xt) |-> clf_predict(m, Xt[i].v)]
    IN  [ok |-> /\ vz.vocabulary # {}
                /\ Cardinality({sp.y_train[i].v : i \in 1..Len(sp.y_train)}) >= 2,
         vectorizer |-> vz, model |-> m,
         accuracy |-> accuracy_score(sp.y_test, y_pred)]

TrainedFiles(e, run) ==
    LET p == PipelineOf(e)
    IN  [model |-> Pickle(run, p.model),
         vectorizer |-> Pickle(run, p.vectorizer),
         evaluation |-> Pickle(run, p.accuracy)]

---------------------------------------------------------------------------
(* Specifications.                                                         *)

NoFiles == [model |-> Absent, vectorizer |-> Absent, evaluation |-> Absent]

\* one solver result
OneSolver(e) ==
    e.intercept = 0 /\ \A t \in Terms : e.coef[t] = IF t = <<"a", "b">> THEN 1 ELSE -1

\* training alone: every pair of permutations
EnvsTrain == {e \in Envs : OneSolver(e)}

\* training beside the app: two pairs of permutations under which the run
\* completes
EnvsDeploy == {e \in EnvsTrain : e.shuffle = "rot" /\ PipelineOf(e).ok}

\* a trained model served: every solver result
EnvsServe == {e \in Envs : e.shuffle = "rot" /\ PipelineOf(e).ok}

Start(envs, sessions, trained) ==
    /\ tx = TxOff
    /\ env \in envs
    /\ runs = IF trained THEN 1 ELSE 0
    /\ tr = TrNone
    /\ files = IF trained THEN TrainedFiles(env, 1) ELSE NoFiles
    /\ cache = CacheEmpty
    /\ live = sessions
    /\ sess = [s \in sessions |-> SessNew]
    /\ served = {}

\* a fresh checkout: nothing trained yet, the app started, one session
Init == Start(EnvsDeploy, {"s1"}, FALSE)
Next == Train \/ App
Spec == Init /\ [][Next]_vars

\* the training script alone
InitTrain == Start(EnvsTrain, {}, FALSE)
SpecTrain == InitTrain /\ [][Train]_vars

\* the app started after one complete training run, one session
InitServe == Start(EnvsServe, {"s1"}, TRUE)
SpecServe == InitServe /\ [][App]_vars

\* the same with two sessions at once
InitConc == Start(EnvsDeploy, Sessions, TRUE)
SpecConc == InitConc /\ [][App]_vars

\* one call of the normalizers
InitText ==
    /\ tx = [TxOff EXCEPT !.pc = "in"]
    /\ env = CHOOSE e \in EnvsDeploy : TRUE
    /\ runs = 0
    /\ tr = TrNone
    /\ files = NoFiles
    /\ cache = CacheEmpty
    /\ live = {}
    /\ sess = [s \in {} |-> SessNew]
    /\ served = {}
SpecText == InitText /\ [][X_Normalize]_vars

\* a complete run leaves the files PipelineOf computes
PipelineAgrees ==
    tr.pc = "done" => PipelineOf(env).ok /\ files = TrainedFiles(env, tr.run)

\* what a session stores is what predict_news returns
StoreAgrees ==
    \A r \in served :
        cache.kind = "pair" /\
        predict_news(r.text, cache.model.obj, cache.vectorizer.obj)
            = [prediction |-> r.prediction, probability |-> r.probability]

---------------------------------------------------------------------------
(* Properties.                                                             *)

IsPrefix(p, q) == Len(p) <= Len(q) /\ SubSeq(q, 1, Len(p)) = p
Rows(X) == {X[i].idx : i \in 1..Len(X)}
Unreadable == {"absent", "truncated"}
InPredict == {"clean", "transform", "predict", "proba", "store"}

\* C1, as stated: clean_text is idempotent, clean_text(clean_text(x)) =
\* clean_text(x) for every text x.
C1_Idempotent == tx.pc = "out" => tx.again = tx.app

\* C2, as stated: when a training run stops at any point, the stored files are
\* exactly those that were there before the run started (never a mix of the
\* old run's files and the new one's).
C2_AllOrNothing == tr.pc = "stopped" => files = tr.before

\* C3, as stated: the (model, vectorizer) pair load_model returns and caches
\* comes from one and the same training run, whatever the interleaving with a
\* training run's writes.
C3_PairFromOneRun == cache.kind = "pair" => cache.model.run = cache.vectorizer.run

\* C4: when load_model finds model.pkl or vectorizer.pkl missing or corrupt, the
\* run of the session ends there with the failure shown (st.error for a missing
\* file, the exception otherwise), nothing is cached, and predict_news runs only
\* with a complete (model, vectorizer) pair.
C4_LoadFailureIsFatal ==
    /\ cache.kind = "pair" =>
          cache.model.kind = "pickle" /\ cache.vectorizer.kind = "pickle"
    /\ \A s \in live :
          /\ sess[s].pc \in InPredict \cup {"handler"} => cache.kind = "pair"
          /\ sess[s].saw_model \in Unreadable \/ sess[s].saw_vectorizer \in Unreadable =>
                /\ sess[s].pc = "idle"
                /\ sess[s].ui \in {"load_error", "exception"}
          /\ "absent" \in {sess[s].saw_model, sess[s].saw_vectorizer} =>
                sess[s].ui = "load_error"
          /\ "truncated" \in {sess[s].saw_model, sess[s].saw_vectorizer} =>
                sess[s].ui = "exception"

\* "Analyze Article" pressed with text, model.pkl read, vectorizer.pkl cut short
C4_Witness ==
    \E s \in live :
        /\ sess[s].event = "analyze"
        /\ strip(sess[s].article_text) # <<>>
        /\ sess[s].saw_model = "pickle"
        /\ sess[s].saw_vectorizer = "truncated"
        /\ sess[s].ui = "exception"
        /\ sess[s].pc = "idle"

\* a run of main() with "Analyze Article" pressed on a blank text is over, and
\* the model was there
BlankAnalyzed(s) ==
    /\ sess[s].pc = "idle"
    /\ sess[s].event = "analyze"
    /\ strip(sess[s].article_text) = <<>>
    /\ sess[s].ui \notin {"load_error", "exception"}

\* C5, as stated: empty or whitespace-only text submitted with "Analyze Article"
\* is not rejected: a prediction (label and both probabilities) is produced for
\* it and stored.
C5_BlankIsPredicted ==
    \A s \in live :
        BlankAnalyzed(s) =>
            /\ sess[s].ui = "result"
            /\ sess[s].has_last
            /\ sess[s].last_text = sess[s].article_text

\* C5, amended: predict_news itself takes empty or whitespace-only text (it
\* normalizes to the empty string and gives the intercept-only label and
\* probabilities), but "Analyze Article" never hands it such text: it shows a
\* warning and no prediction is produced or stored for it.
C5_BlankIsRefused ==
    /\ \A s \in live : BlankAnalyzed(s) => sess[s].ui = "warning"
    /\ \A r \in served : strip(r.text) # <<>>
    /\ \A s \in live : sess[s].has_last => strip(sess[s].last_text) # <<>>
    /\ cache.kind = "pair" =>
          \A t \in ArticleTexts :
              strip(t) = <<>> =>
                 LET b == cache.model.obj.intercept
                 IN  /\ clean_text(t) = <<>>
                     /\ predict_news(t, cache.model.obj, cache.vectorizer.obj) =
                           [prediction |-> IF b > 0 THEN 1 ELSE 0,
                            probability |-> << [sigmoid |-> 0 - b], [sigmoid |-> b] >>]

\* whitespace-only text was submitted and the warning is on the page
C5_Witness ==
    \E s \in live :
        /\ BlankAnalyzed(s)
        /\ sess[s].article_text = <<" ", "\n">>
        /\ sess[s].ui = "warning"
        /\ cache.kind = "pair"

\* the score of the text a session stored last
LastScore(s) ==
    decision_function(cache.model.obj,
        vec_transform(cache.vectorizer.obj, clean_text(sess[s].last_text)).x)

\* C6: the label predict_news returns is 1 (REAL) only when the score
\* dot(coef, features) + intercept is positive; a score of exactly 0 gives
\* 0 (FAKE).
C6_TieGoesToFake ==
    \A s \in live :
        /\ sess[s].pc \in {"proba", "store"} =>
              LET z == decision_function(cache.model.obj, sess[s].text_vec)
              IN  /\ z = 0 => sess[s].prediction = 0
                  /\ sess[s].prediction = 1 <=> z > 0
                  /\ sess[s].prediction \in {0, 1}
        /\ sess[s].has_last =>
              /\ LastScore(s) = 0 => sess[s].last_prediction = 0
              /\ sess[s].last_prediction = 1 <=> LastScore(s) > 0

\* a text with features that cancel to a score of exactly 0 was labelled
C6_Witness ==
    \E s \in live :
        /\ sess[s].pc = "store"
        /\ decision_function(cache.model.obj, sess[s].text_vec) = 0
        /\ \E t \in DOMAIN sess[s].text_vec : sess[s].text_vec[t] # 0
        /\ sess[s].prediction = 0

\* C7: clean_text of train_model.py and clean_text of app.py return the same
\* text for every input.
C7_SameNormalizer == tx.pc = "out" => tx.app = tx.train

\* an input with an upper-case letter, a URL and a digit, not normalized to
\* nothing
C7_Witness ==
    /\ tx.pc = "out"
    /\ HasUrl(lower(tx.input))
    /\ \E i \in 1..Len(tx.input) : tx.input[i] \in UpperLetters
    /\ \E i \in 1..Len(tx.input) : IsDigit(tx.input[i])
    /\ tx.train # <<>>
    /\ tx.train = tx.app

\* C8: predict_news only reads the loaded pair: under every interleaving of the
\* sessions' calls the cached model and vectorizer stay what was loaded (no term
\* is added to the vocabulary), and what a call returns is a function of its
\* text alone.
C8_PredictOnlyReads ==
    /\ cache.kind = "pair" =>
          cache.model = files.model /\ cache.vectorizer = files.vectorizer
    /\ \A r \in served :
          predict_news(r.text, files.model.obj, files.vectorizer.obj) =
             [prediction |-> r.prediction, probability |-> r.probability]
    /\ \A a, b \in served : a.text = b.text => a = b

\* both sessions are inside predict_news on a text with an unseen term, after
\* that text was served once already
C8_Witness ==
    /\ live = Sessions
    /\ sess["s1"].pc = "predict"
    /\ sess["s2"].pc = "proba"
    /\ sess["s1"].article_text = <<"x", "y", " ", "9">>
    /\ sess["s2"].article_text = <<"x", "y", " ", "9">>
    /\ \E r \in served : r.text = <<"x", "y", " ", "9">>

\* C9, as stated: the stages run in the order LOAD, LABEL, CONCATENATE, SHUFFLE,
\* SPLIT, NORMALIZE, vectorizer fit, vectorizer transform, classifier fit,
\* classifier predict, metrics, PERSIST.
C9_SplitThenNormalize == Running => IsPrefix(tr.log, StageOrderSplitFirst)

\* C9, amended: the stages run one after the other in the order LOAD, LABEL,
\* CONCATENATE, SHUFFLE, NORMALIZE all documents, SPLIT into train/test,
\* vectorizer fit (and transform) on train, vectorizer transform of test,
\* classifier fit on train, classifier predict on test, metrics, PERSIST
\* (model.pkl, vectorizer.pkl, evaluation.txt): the split is made of documents
\* that are normalized already.
C9_NormalizeThenSplit ==
    Running =>
        /\ IsPrefix(tr.log, StageOrder)
        /\ tr.pc = StageOrder[Len(tr.log) + 1]
        /\ "split" \in Range(tr.log) =>
              /\ Rows(tr.X_train) \cup Rows(tr.X_test) = 1..Len(tr.df)
              /\ \A X \in {tr.X_train, tr.X_test} : \A i \in 1..Len(X) :
                    X[i].v = train_clean_text(tr.df[X[i].idx].title \o <<" ">>
                                                \o tr.df[X[i].idx].text)

\* a run that has come to its last statement
C9_Witness == tr.pc = "write_eval" /\ Len(tr.log) = Len(StageOrder) - 1

\* the terms of the documents of the series X
TermsOf(X) == UNION {Range(Analyze(X[i].v)) : i \in 1..Len(X)}

\* C10: the vocabulary, the IDF weights and the classifier's coefficients are
\* learned from the rows of the training split only; the rows of the test split
\* are only transformed and predicted with that state.
C10_FitOnTrainOnly ==
    Running =>
        /\ Rows(tr.X_train) \cap Rows(tr.X_test) = {}
        /\ tr.vectorizer # None =>
              /\ tr.vectorizer.fit_rows = Rows(tr.X_train)
              /\ tr.vectorizer.fit_rows \cap Rows(tr.X_test) = {}
              /\ tr.vectorizer.vocabulary \subseteq TermsOf(tr.X_train)
              /\ DOMAIN tr.vectorizer.idf = tr.vectorizer.vocabulary
        /\ tr.model # None =>
              /\ tr.model.fit_rows = Rows(tr.X_train)
              /\ tr.model.fit_rows \cap Rows(tr.X_test) = {}
              /\ DOMAIN tr.model.coef \subseteq TermsOf(tr.X_train)
        /\ "vec_transform" \in Range(tr.log) =>
              tr.X_test_vec = TransformAll(tr.vectorizer, tr.X_test)
        /\ "predict" \in Range(tr.log) =>
              tr.y_pred = [i \in 1..Len(tr.X_test_vec) |->
                              clf_predict(tr.model, tr.X_test_vec[i].v)]

\* a fitted model about to be written, with a test document that holds a term
\* the vocabulary does not
C10_Witness ==
    /\ tr.pc = "dump_model"
    /\ ~(TermsOf(tr.X_test) \subseteq tr.vectorizer.vocabulary)

=============================================================================
